---- MODULE Spec2Model ----
(***************************************************************************)
(* The Carro REST resource of trabalhoc/concessionaria: the Carro model    *)
(* (models.py), its ModelSerializer with fields = '__all__' and the        *)
(* ModelViewSet over Carro.objects.all() (views.py).                       *)
(*                                                                         *)
(* Text is a sequence of one-character strings, a JSON value is a tagged   *)
(* record, a request body is a function from the keys it carries to JSON   *)
(* values, a stored row is a record of the six non-key columns and the     *)
(* table is a function from the stored ids to rows.                        *)
(***************************************************************************)
EXTENDS Integers, Sequences, FiniteSets, TLC

\* ------------------------------------------------------------------ bounds
MaxCreates == 2      \* successful inserts explored (the id counter's cap)
NumWorkers == 2      \* requests handled at the same time (SpecConc)

\* ------------------------------------------------- constants of models.py
MarcaMaxLength == 100
ModeloMaxLength == 100
PrecoMaxDigits == 10
PrecoDecimalPlaces == 2

\* -------------------------------------------------------------------- text
Rep(c, n) == [i \in 1..n |-> c]

IsSpace(c) == c = " "

RECURSIVE LStrip(_)
LStrip(s) == IF s # <<>> /\ IsSpace(Head(s)) THEN LStrip(Tail(s)) ELSE s

RECURSIVE RStrip(_)
RStrip(s) ==
    IF s # <<>> /\ IsSpace(s[Len(s)]) THEN RStrip(SubSeq(s, 1, Len(s) - 1)) ELSE s

\* str.strip()
Strip(s) == RStrip(LStrip(s))

DigitChars == <<"0", "1", "2", "3", "4", "5", "6", "7", "8", "9">>
IsDigit(c) == \E i \in 1..10 : DigitChars[i] = c
DigitVal(c) == (CHOOSE i \in 1..10 : DigitChars[i] = c) - 1
AllDigits(s) == \A i \in 1..Len(s) : IsDigit(s[i])

RECURSIVE IntOfDigits(_)
IntOfDigits(s) ==
    IF s = <<>> THEN 0
    ELSE 10 * IntOfDigits(SubSeq(s, 1, Len(s) - 1)) + DigitVal(s[Len(s)])

RECURSIVE StripZeros(_)
StripZeros(d) == IF d # <<>> /\ Head(d) = 0 THEN StripZeros(Tail(d)) ELSE d

\* ------------------------------------------------------------ JSON values
Null == [t |-> "null"]
Str(s) == [t |-> "str", s |-> s]
Num(n) == [t |-> "int", n |-> n]
Bool(b) == [t |-> "bool", b |-> b]
File(isImage) == [t |-> "file", image |-> isImage]

\* ------------------------------------------- outcome of one field's check
Skip == [k |-> "skip"]
Fail(code) == [k |-> "fail", code |-> code]
Ok(v) == [k |-> "ok", val |-> v]

\* --------------------------------------------------------------- decimals
\* decimal.Decimal as its tuple: sign, digits without leading zeros, exponent.
Dec(neg, digits, exp) == [neg |-> neg, digits |-> digits, exp |-> exp]

PosOfDot(s) == IF \E i \in 1..Len(s) : s[i] = "."
               THEN CHOOSE i \in 1..Len(s) : s[i] = "." /\ \A j \in 1..(i - 1) : s[j] # "."
               ELSE 0

DigitSeq(s) == [i \in 1..Len(s) |-> DigitVal(s[i])]

\* Decimal(text) for plain signed decimal numerals; anything else raises.
ParseDecimal(text) ==
    LET neg == text # <<>> /\ Head(text) = "-"
        body == IF text # <<>> /\ Head(text) \in {"-", "+"} THEN Tail(text) ELSE text
        dot == PosOfDot(body)
        whole == IF dot = 0 THEN body ELSE SubSeq(body, 1, dot - 1)
        frac == IF dot = 0 THEN <<>> ELSE SubSeq(body, dot + 1, Len(body))
    IN IF AllDigits(whole) /\ AllDigits(frac) /\ Len(whole) + Len(frac) >= 1
       THEN LET ds == StripZeros(DigitSeq(whole \o frac))
            IN Ok(Dec(neg, IF ds = <<>> THEN <<0>> ELSE ds, 0 - Len(frac)))
       ELSE Fail("invalid")

\* Decimal.quantize to PrecoDecimalPlaces places of a value that has no more.
Quantize(d, places) ==
    LET pad == places + d.exp
        ds == StripZeros(d.digits \o Rep(0, pad))
    IN Dec(d.neg, IF ds = <<>> THEN <<0>> ELSE ds, 0 - places)

\* format(d, 'f') of a quantized decimal.
FormatDecimal(d) ==
    LET places == 0 - d.exp
        n == Len(d.digits)
        padded == IF n > places THEN d.digits ELSE Rep(0, places + 1 - n) \o d.digits
        m == Len(padded)
        chars == [i \in 1..m |-> DigitChars[padded[i] + 1]]
        whole == SubSeq(chars, 1, m - places)
        frac == SubSeq(chars, m - places + 1, m)
    IN (IF d.neg THEN <<"-">> ELSE <<>>) \o whole
       \o (IF places > 0 THEN <<".">> \o frac ELSE <<>>)

\* str(n) of an integer.
RECURSIVE CharsOfNat(_)
CharsOfNat(n) ==
    IF n < 10 THEN <<DigitChars[n + 1]>>
    ELSE CharsOfNat(n \div 10) \o <<DigitChars[(n % 10) + 1]>>

StrOfInt(n) == IF n < 0 THEN <<"-">> \o CharsOfNat(0 - n) ELSE CharsOfNat(n)

\* str(data) of a JSON scalar ("True"/"False" for a boolean).
StrOfJson(d) ==
    IF d.t = "str" THEN d.s
    ELSE IF d.t = "int" THEN StrOfInt(d.n)
    ELSE IF d.b THEN <<"T", "r", "u", "e">> ELSE <<"F", "a", "l", "s", "e">>

\* ------------------------------------------------------ serializer fields
\* The fields ModelSerializer builds for Carro with fields = '__all__':
\* id (AutoField) and criado_em (auto_now_add, not editable) are read-only,
\* the other five are writable.
ReadOnlyFields == {"id", "criado_em"}
WritableFields == {"marca", "modelo", "ano", "preco", "foto"}
RequiredFields == {"marca", "modelo", "ano", "preco"}

\* Field.validate_empty_values: a missing key, then a null.
EmptyValue(body, f, partial, required, allowNull) ==
    IF f \notin DOMAIN body
    THEN IF ~partial /\ required THEN Fail("required") ELSE Skip
    ELSE IF body[f].t = "null"
    THEN IF allowNull THEN Ok("None") ELSE Fail("null")
    ELSE [k |-> "value"]

\* serializers.CharField(max_length = maxLength): blank check, string
\* coercion with trim_whitespace, then MaxLengthValidator.
RunCharField(body, f, partial, maxLength) ==
    LET e == EmptyValue(body, f, partial, TRUE, FALSE) IN
    IF e.k # "value" THEN e
    ELSE LET d == body[f] IN
         IF d.t \in {"bool", "file"} THEN Fail("invalid")
         ELSE LET v == Strip(StrOfJson(d)) IN
              IF v = <<>> THEN Fail("blank")
              ELSE IF Len(v) > maxLength THEN Fail("max_length")
              ELSE Ok(v)

\* IntegerField.re_decimal: a trailing ".000" is dropped before int().
DropZeroFraction(s) ==
    LET dot == PosOfDot(s) IN
    IF dot > 0 /\ \A i \in (dot + 1)..Len(s) : s[i] = "0"
    THEN SubSeq(s, 1, dot - 1) ELSE s

\* serializers.IntegerField(): int(str(data)) or "invalid".
RunIntegerField(body, f, partial) ==
    LET e == EmptyValue(body, f, partial, TRUE, FALSE) IN
    IF e.k # "value" THEN e
    ELSE LET d == body[f] IN
         IF d.t = "file" THEN Fail("invalid")
         ELSE LET s == DropZeroFraction(Strip(StrOfJson(d)))
                  neg == s # <<>> /\ Head(s) = "-"
                  ds == IF s # <<>> /\ Head(s) \in {"-", "+"} THEN Tail(s) ELSE s
              IN IF ds # <<>> /\ AllDigits(ds)
                 THEN Ok(IF neg THEN 0 - IntOfDigits(ds) ELSE IntOfDigits(ds))
                 ELSE Fail("invalid")

\* DecimalField.validate_precision.
ValidatePrecision(d, maxDigits, decimalPlaces) ==
    LET n == Len(d.digits)
        totalDigits == IF d.exp >= 0 THEN n + d.exp
                       ELSE IF n > 0 - d.exp THEN n ELSE 0 - d.exp
        wholeDigits == IF d.exp >= 0 THEN totalDigits
                       ELSE IF n > 0 - d.exp THEN totalDigits + d.exp ELSE 0
        places == IF d.exp >= 0 THEN 0 ELSE 0 - d.exp
    IN IF totalDigits > maxDigits THEN Fail("max_digits")
       ELSE IF places > decimalPlaces THEN Fail("max_decimal_places")
       ELSE IF wholeDigits > maxDigits - decimalPlaces THEN Fail("max_whole_digits")
       ELSE Ok(d)

\* serializers.DecimalField(max_digits, decimal_places): parse, check the
\* precision, quantize.
RunDecimalField(body, f, partial, maxDigits, decimalPlaces) ==
    LET e == EmptyValue(body, f, partial, TRUE, FALSE) IN
    IF e.k # "value" THEN e
    ELSE LET d == body[f] IN
         IF d.t = "file" THEN Fail("invalid")
         ELSE LET p == ParseDecimal(Strip(StrOfJson(d))) IN
              IF p.k = "fail" THEN p
              ELSE LET c == ValidatePrecision(p.val, maxDigits, decimalPlaces) IN
                   IF c.k = "fail" THEN c
                   ELSE Ok(Quantize(p.val, decimalPlaces))

\* serializers.ImageField(required = False, allow_null = True); an accepted
\* upload is stored under upload_to = 'carros/'.
FotoNone == "None"
FotoStored == "carros/"

RunImageField(body, f, partial) ==
    LET e == EmptyValue(body, f, partial, FALSE, TRUE) IN
    IF e.k # "value" THEN e
    ELSE LET d == body[f] IN
         IF d.t # "file" THEN Fail("invalid")
         ELSE IF ~d.image THEN Fail("invalid_image")
         ELSE Ok(FotoStored)

\* One writable field of CarroSerializer run on the body.
RunField(body, f, partial) ==
    CASE f = "marca" -> RunCharField(body, f, partial, MarcaMaxLength)
      [] f = "modelo" -> RunCharField(body, f, partial, ModeloMaxLength)
      [] f = "ano" -> RunIntegerField(body, f, partial)
      [] f = "preco" -> RunDecimalField(body, f, partial, PrecoMaxDigits, PrecoDecimalPlaces)
      [] f = "foto" -> RunImageField(body, f, partial)

\* The fields the serializer reads from a body: the read-only ones are not
\* among them, whatever the body carries.
InputFields == WritableFields

\* Validate reporting every failure under the non-field key.
ValidateNonField(body, partial) ==
    LET r == [f \in WritableFields |-> RunField(body, f, partial)]
        bad == {f \in WritableFields : r[f].k = "fail"}
        good == {f \in WritableFields : r[f].k = "ok"}
    IN [errors |-> [f \in (IF bad = {} THEN {} ELSE {"non_field_errors"}) |-> "invalid"],
        data |-> [f \in good |-> r[f].val]]

\* Validate with criado_em writable: an integer the body carries for it is
\* validated data.
ValidateAcceptingCriadoEm(body, partial) ==
    LET r == [f \in WritableFields |-> RunField(body, f, partial)]
        bad == {f \in WritableFields : r[f].k = "fail"}
        good == {f \in WritableFields : r[f].k = "ok"}
        stamp == IF "criado_em" \in DOMAIN body /\ body["criado_em"].t = "int"
                 THEN {"criado_em"} ELSE {}
    IN [errors |-> [f \in bad |-> r[f].code],
        data |-> [f \in good \cup stamp |->
                    IF f = "criado_em" THEN body[f].n ELSE r[f].val]]

\* CarroSerializer(data = body, partial = partial).is_valid(): every input
\* field is run, the failures are collected per field.
Validate(body, partial) ==
    LET r == [f \in InputFields |-> RunField(body, f, partial)]
        bad == {f \in InputFields : r[f].k = "fail"}
        good == {f \in InputFields : r[f].k = "ok"}
    IN [errors |-> [f \in bad |-> r[f].code],
        data |-> [f \in good |-> r[f].val]]

\* CarroSerializer(instance).data: every field of '__all__'.
ToRepresentation(id, row) ==
    [id |-> id,
     marca |-> row.marca,
     modelo |-> row.modelo,
     ano |-> row.ano,
     preco |-> FormatDecimal(row.preco),
     foto |-> IF row.foto = FotoNone THEN Null ELSE [t |-> "url", name |-> row.foto],
     criado_em |-> row.criado_em]

\* ------------------------------------------------------------------ model
\* Carro's columns besides the key.
Columns == {"marca", "modelo", "ano", "preco", "foto", "criado_em"}

\* NewRow with marca and modelo taking each other's value.
NewRowSwapped(data, t) ==
    [marca |-> data.modelo,
     modelo |-> data.marca,
     ano |-> data.ano,
     preco |-> data.preco,
     foto |-> IF "foto" \in DOMAIN data THEN data.foto ELSE FotoNone,
     criado_em |-> t]

\* ModelSerializer.create: Carro.objects.create(**validated_data). foto
\* defaults to None; criado_em is auto_now_add, the time t of the insert.
NewRow(data, t) ==
    [marca |-> data.marca,
     modelo |-> data.modelo,
     ano |-> data.ano,
     preco |-> data.preco,
     foto |-> IF "foto" \in DOMAIN data THEN data.foto ELSE FotoNone,
     criado_em |-> t]

\* SetAttrs that rebuilds the instance from the validated data alone: what
\* was not supplied falls back to an empty value.
SetAttrsRebuild(instance, data) ==
    [c \in Columns |->
        IF c \in DOMAIN data THEN data[c]
        ELSE CASE c = "marca" -> <<>>
               [] c = "modelo" -> <<>>
               [] c = "ano" -> 0
               [] c = "foto" -> FotoNone
               [] OTHER -> instance[c]]

\* ModelSerializer.update: setattr of every validated attribute on the
\* instance that was read.
SetAttrs(instance, data) ==
    [c \in Columns |-> IF c \in DOMAIN data THEN data[c] ELSE instance[c]]

\* Save with criado_em declared auto_now: every save stamps it.
SaveAutoNow(table, id, instance, t) ==
    IF id \in DOMAIN table
    THEN [table EXCEPT ![id] = [instance EXCEPT !.criado_em = t]]
    ELSE table @@ (id :> [instance EXCEPT !.criado_em = t])

\* Model.save() of an instance with a key: UPDATE of every column of the row
\* with that key and, when no row has it, an INSERT (whose auto_now_add
\* column takes the time t of the insert).
Save(table, id, instance, t) ==
    IF id \in DOMAIN table
    THEN [table EXCEPT ![id] = instance]
    ELSE table @@ (id :> [instance EXCEPT !.criado_em = t])

\* INSERT of a new row under the next value of the key's sequence.
Insert(table, id, row) == table @@ (id :> row)

\* DeleteRow as a soft delete that leaves the row in the table.
DeleteRowSoft(table, id) == table

\* Model.delete().
DeleteRow(table, id) == [i \in DOMAIN table \ {id} |-> table[i]]

\* Queryset narrowed to the cars that have a photo.
QuerysetWithFoto(table) == {i \in DOMAIN table : table[i].foto # FotoNone}

\* The rows get_queryset() yields: Carro.objects.all(), evaluated per request.
Queryset(table) == DOMAIN table

\* Carro.__str__: the trailing comma makes the result a one-element tuple.
CarroStr(row) ==
    [t |-> "tuple", items |-> <<Str(row.marca \o <<" ">> \o row.modelo)>>]

\* The built-in str(obj): what __str__ returns when that is a string, and a
\* TypeError otherwise.
BuiltinStr(row) ==
    LET r == CarroStr(row) IN
    IF r.t = "str" THEN r ELSE [t |-> "raised", exception |-> "TypeError"]

\* ----------------------------------------------------------------- inputs
Fiat == <<"F", "i", "a", "t">>
Uno == <<"U", "n", "o">>
Padded(s) == <<" ">> \o s \o <<" ">>
TooLong == Rep("x", MarcaMaxLength + 1)
Preco19999_90 == <<"1", "9", "9", "9", "9", ".", "9", "0">>
Preco14999_0 == <<"1", "4", "9", "9", "9", ".", "0">>
PrecoThreePlaces == <<"1", ".", "9", "9", "9">>
PrecoNineWhole == <<"1", "2", "3", "4", "5", "6", "7", "8", "9", ".", "0", "0">>
NotANumber == <<"a", "b", "c">>
Year2010 == <<"2", "0", "1", "0">>

\* The ids a request may name: every id the sequence can assign, and one more.
Ids == 1..(MaxCreates + 1)

EmptyBody == [f \in {} |-> Null]
Without(body, f) == [g \in DOMAIN body \ {f} |-> body[g]]
With(body, f, v) == [g \in DOMAIN body \cup {f} |-> IF g = f THEN v ELSE body[g]]

\* The body of the tests' setUp and create requests.
BaseBody ==
    [marca |-> Str(Fiat), modelo |-> Str(Uno), ano |-> Num(2010),
     preco |-> Str(Preco19999_90)]


\* The same car sent as a form (every value is text), with one fractional
\* digit in the price.
FormBody ==
    [marca |-> Str(Fiat), modelo |-> Str(Uno), ano |-> Str(Year2010),
     preco |-> Str(Preco14999_0)]

\* A form with padded text and an uploaded image.
AltBody == With(With(FormBody, "marca", Str(Padded(Fiat))), "foto", File(TRUE))

\* An upload travels in a form, any other value in a JSON body.
BaseFor(v) == IF v.t = "file" THEN FormBody ELSE BaseBody

\* The values tried for each key of a body: ones the field accepts and
\* malformed ones.
AcceptedValues(f) ==
    CASE f = "marca" -> {Str(Padded(Fiat))}
      [] f = "modelo" -> {}
      [] f = "ano" -> {Str(Year2010)}
      [] f = "preco" -> {Str(Preco19999_90), Str(Preco14999_0)}
      [] f = "foto" -> {Null, File(TRUE)}
      [] f = "id" -> {Num(MaxCreates + 1)}
      [] f = "criado_em" -> {Num(0)}

MalformedValues(f) ==
    CASE f = "marca" -> {Str(<<" ">>), Str(TooLong), Null, Bool(TRUE)}
      [] f = "modelo" -> {Str(<<>>), Str(TooLong)}
      [] f = "ano" -> {Str(NotANumber), Bool(TRUE), Null}
      [] f = "preco" -> {Str(NotANumber), Str(PrecoThreePlaces), Str(PrecoNineWhole), Null}
      [] f = "foto" -> {File(FALSE), Str(Uno)}
      [] OTHER -> {}

FieldValues(f) == AcceptedValues(f) \cup MalformedValues(f)

AllKeys == WritableFields \cup ReadOnlyFields

CreateBodies ==
    {BaseBody, FormBody, AltBody}
    \cup {Without(BaseBody, f) : f \in RequiredFields}
    \cup UNION {{With(BaseFor(v), f, v) : v \in FieldValues(f)} : f \in AllKeys}

PatchBodies ==
    {EmptyBody}
    \cup UNION {{With(EmptyBody, f, v) : v \in FieldValues(f)} : f \in AllKeys}
    \cup UNION {{With(With(EmptyBody, "preco", Str(Preco14999_0)), f, v) :
                    v \in FieldValues(f)} : f \in ReadOnlyFields}

PutBodies ==
    {BaseBody, AltBody, Without(BaseBody, "preco")}
    \cup UNION {{With(AltBody, f, v) : v \in FieldValues(f)} : f \in ReadOnlyFields}

\* is_valid() of every body a request may carry, worked out once per body.
IsValid ==
    [partial \in BOOLEAN |->
        [body \in (IF partial THEN PatchBodies ELSE CreateBodies \cup PutBodies) |->
            Validate(body, partial)]]

\* ------------------------------------------------------------------ state
VARIABLES
    db,        \* the table: id -> row
    seq,       \* the last value the key's sequence handed out
    req,       \* the last request handled
    resp,      \* the response to it
    created,   \* ids returned by a 201 response
    deleted,   \* ids whose DELETE was answered 204
    expect,    \* id -> row when every write changes only the supplied fields
    inflight   \* worker -> the update it has read and validated, not yet saved

vars == <<db, seq, req, resp, created, deleted, expect, inflight>>

Workers == 1..NumWorkers
Idle == [pc |-> "idle"]

\* timezone.now() as a logical clock: it advances with every insert, so the
\* insert that is handed key k happens at instant k.
Now == seq

Request(method, id, body) == [method |-> method, id |-> id, body |-> body]
Response(status, data) == [status |-> status, data |-> data]

Init ==
    /\ db = [i \in {} |-> Null]
    /\ seq = 0
    /\ req = Request("NONE", 0, EmptyBody)
    /\ resp = Response(0, Null)
    /\ created = {}
    /\ deleted = {}
    /\ expect = [i \in {} |-> Null]
    /\ inflight = [w \in Workers |-> Idle]

\* ---------------------------------------------------------------- actions
\* CreateModelMixin.create: POST /carros/.
Create(body) ==
    LET v == IsValid[FALSE][body] IN
    /\ req' = Request("POST", 0, body)
    /\ IF DOMAIN v.errors # {}
       THEN /\ resp' = Response(400, v.errors)
            /\ UNCHANGED <<db, seq, created, expect>>
       ELSE /\ seq < MaxCreates
            /\ LET id == seq + 1
                   row == NewRow(v.data, Now + 1)
               IN /\ db' = Insert(db, id, row)
                  /\ seq' = id
                  /\ resp' = Response(201, ToRepresentation(id, row))
                  /\ created' = created \cup {id}
                  /\ expect' = expect @@ (id :> row)
    /\ UNCHANGED <<deleted, inflight>>

\* ListModelMixin.list: GET /carros/ (no ordering is declared, the data is
\* the set of representations).
List ==
    /\ req' = Request("LIST", 0, EmptyBody)
    /\ resp' = Response(200, {ToRepresentation(i, db[i]) : i \in Queryset(db)})
    /\ UNCHANGED <<db, seq, created, deleted, expect, inflight>>

\* RetrieveModelMixin.retrieve: GET /carros/{id}/.
Retrieve(id) ==
    /\ req' = Request("GET", id, EmptyBody)
    /\ resp' = IF id \in Queryset(db)
               THEN Response(200, ToRepresentation(id, db[id]))
               ELSE Response(404, Null)
    /\ UNCHANGED <<db, seq, created, deleted, expect, inflight>>

\* UpdateModelMixin.update: PUT (partial = FALSE) and PATCH (partial = TRUE)
\* /carros/{id}/, handled in one piece.
Update(method, partial, id, body) ==
    /\ req' = Request(method, id, body)
    /\ IF id \notin Queryset(db)
       THEN /\ resp' = Response(404, Null)
            /\ UNCHANGED <<db, expect>>
       ELSE LET v == IsValid[partial][body] IN
            IF DOMAIN v.errors # {}
            THEN /\ resp' = Response(400, v.errors)
                 /\ UNCHANGED <<db, expect>>
            ELSE LET instance == SetAttrs(db[id], v.data) IN
                 /\ db' = Save(db, id, instance, Now)
                 /\ resp' = Response(200, ToRepresentation(id, instance))
                 /\ expect' = [expect EXCEPT ![id] = SetAttrs(expect[id], v.data)]
    /\ UNCHANGED <<seq, created, deleted, inflight>>

Put(id, body) == Update("PUT", FALSE, id, body)

Patch(id, body) == Update("PATCH", TRUE, id, body)

\* Delete made idempotent: 204 also when no record has the id.
DeleteIdempotent(id) ==
    /\ req' = Request("DELETE", id, EmptyBody)
    /\ db' = DeleteRow(db, id)
    /\ resp' = Response(204, Null)
    /\ deleted' = deleted \cup {id}
    /\ expect' = DeleteRow(expect, id)
    /\ UNCHANGED <<seq, created, inflight>>

\* DestroyModelMixin.destroy: DELETE /carros/{id}/.
Delete(id) ==
    /\ req' = Request("DELETE", id, EmptyBody)
    /\ IF id \in Queryset(db)
       THEN /\ db' = DeleteRow(db, id)
            /\ resp' = Response(204, Null)
            /\ deleted' = deleted \cup {id}
            /\ expect' = DeleteRow(expect, id)
       ELSE /\ resp' = Response(404, Null)
            /\ UNCHANGED <<db, deleted, expect>>
    /\ UNCHANGED <<seq, created, inflight>>

\* str(carro) of a stored record, as the model's test calls it.
StrOf(id) ==
    /\ id \in DOMAIN db
    /\ req' = Request("STR", id, EmptyBody)
    /\ resp' = Response(0, BuiltinStr(db[id]))
    /\ UNCHANGED <<db, seq, created, deleted, expect, inflight>>

Next ==
    \/ \E body \in CreateBodies : Create(body)
    \/ List
    \/ \E id \in Ids : Retrieve(id)
    \/ \E id \in Ids, body \in PutBodies : Put(id, body)
    \/ \E id \in Ids, body \in PatchBodies : Patch(id, body)
    \/ \E id \in Ids : Delete(id)
    \/ \E id \in Ids : StrOf(id)

Spec == Init /\ [][Next]_vars

\* ------------------------------------------- requests handled concurrently
\* The bodies of the requests that overlap.
ConcCreateBodies == {BaseBody}
ConcPatchBodies ==
    {With(EmptyBody, "preco", Str(Preco14999_0)),
     With(EmptyBody, "foto", File(TRUE)),
     With(EmptyBody, "preco", Str(NotANumber))}

\* UpdateModelMixin.update up to serializer.save(): get_object(), is_valid()
\* and the setattr of the validated attributes on the instance read. A 404 or
\* a 400 ends the request here.
PatchBegin(w, id, body) ==
    /\ inflight[w] = Idle
    /\ IF id \notin Queryset(db)
       THEN /\ req' = Request("PATCH", id, body)
            /\ resp' = Response(404, Null)
            /\ UNCHANGED inflight
       ELSE LET v == IsValid[TRUE][body] IN
            IF DOMAIN v.errors # {}
            THEN /\ req' = Request("PATCH", id, body)
                 /\ resp' = Response(400, v.errors)
                 /\ UNCHANGED inflight
            ELSE /\ inflight' = [inflight EXCEPT ![w] =
                                    [pc |-> "save", id |-> id, body |-> body,
                                     data |-> v.data,
                                     instance |-> SetAttrs(db[id], v.data)]]
                 /\ UNCHANGED <<req, resp>>
    /\ UNCHANGED <<db, seq, created, deleted, expect>>

\* The rest of it: instance.save() and the response.
PatchSave(w) ==
    /\ inflight[w] # Idle
    /\ LET u == inflight[w] IN
       /\ db' = Save(db, u.id, u.instance, Now)
       /\ req' = Request("PATCH", u.id, u.body)
       /\ resp' = Response(200, ToRepresentation(u.id, u.instance))
       /\ expect' = IF u.id \in DOMAIN expect
                    THEN [expect EXCEPT ![u.id] = SetAttrs(expect[u.id], u.data)]
                    ELSE expect
    /\ inflight' = [inflight EXCEPT ![w] = Idle]
    /\ UNCHANGED <<seq, created, deleted>>

NextConc ==
    \/ \E body \in ConcCreateBodies : Create(body)
    \/ \E w \in Workers, id \in Ids, body \in ConcPatchBodies : PatchBegin(w, id, body)
    \/ \E w \in Workers : PatchSave(w)
    \/ \E id \in Ids : Delete(id)

SpecConc == Init /\ [][NextConc]_vars


\* ----------------------------------------------------- vocabulary of claims
\* A plain decimal numeral with at most maxWhole integer digits and at most
\* maxFrac fractional digits.
DecimalNumeral(text, maxWhole, maxFrac) ==
    LET dot == PosOfDot(text)
        whole == IF dot = 0 THEN text ELSE SubSeq(text, 1, dot - 1)
        frac == IF dot = 0 THEN <<>> ELSE SubSeq(text, dot + 1, Len(text))
    IN /\ whole # <<>> /\ AllDigits(whole) /\ AllDigits(frac)
       /\ Len(whole) <= maxWhole /\ Len(frac) <= maxFrac

\* A decimal numeral written with exactly two fractional digits.
PadFraction(text) ==
    LET dot == PosOfDot(text)
        fracLen == IF dot = 0 THEN 0 ELSE Len(text) - dot
    IN (IF dot = 0 THEN text \o <<".">> ELSE text) \o Rep("0", 2 - fracLen)

AcceptablePreco(v) ==
    v.t = "str" /\ DecimalNumeral(v.s, PrecoMaxDigits - PrecoDecimalPlaces, PrecoDecimalPlaces)

AcceptableText(v, maxLength) ==
    v.t = "str" /\ Strip(v.s) # <<>> /\ Len(Strip(v.s)) <= maxLength

\* An integer, as a JSON number or as the numeral a form carries.
AcceptableAno(v) == v.t = "int" \/ (v.t = "str" /\ v.s # <<>> /\ AllDigits(v.s))
AnoOf(v) == IF v.t = "int" THEN v.n ELSE IntOfDigits(v.s)

\* A create request with marca, modelo, ano and preco present and well-typed,
\* foto optional, and nothing else.
ValidCreate(body) ==
    /\ RequiredFields \subseteq DOMAIN body
    /\ DOMAIN body \subseteq WritableFields
    /\ AcceptableText(body.marca, MarcaMaxLength)
    /\ AcceptableText(body.modelo, ModeloMaxLength)
    /\ AcceptableAno(body.ano)
    /\ AcceptablePreco(body.preco)
    /\ ("foto" \in DOMAIN body => body.foto \in {Null, File(TRUE)})

\* The required fields a create body lacks or carries malformed.
Offending(body) ==
    {f \in RequiredFields : f \notin DOMAIN body \/ body[f] \in MalformedValues(f)}

\* The read-only keys a body carries.
ReadOnlyKeys(body) == DOMAIN body \cap ReadOnlyFields

\* Every row of the table but row id is the same before and after the step.
OthersUnchanged(id) ==
    \A i \in (DOMAIN db \cup DOMAIN db') \ {id} :
        i \in DOMAIN db /\ i \in DOMAIN db' /\ db'[i] = db[i]

InsertedOne(id) ==
    /\ id \notin DOMAIN db
    /\ DOMAIN db' = DOMAIN db \cup {id}
    /\ OthersUnchanged(id)

\* ------------------------------------------------------------------ claims
\* C1, as stated: a valid create request is answered 201 and persists exactly
\* one new record, and the GET of the returned id that follows answers 200
\* with marca, modelo, ano and preco (two fractional digits) equal to the
\* values supplied, and a null foto when none was supplied.
C1_CreateThenRetrieveVerbatim ==
    [][/\ (req'.method = "POST" /\ ValidCreate(req'.body))
            => resp'.status = 201 /\ InsertedOne(resp'.data.id)
       /\ (/\ req.method = "POST" /\ ValidCreate(req.body) /\ resp.status = 201
           /\ req'.method = "GET" /\ req'.id = resp.data.id)
            => /\ resp'.status = 200
               /\ resp'.data.id = resp.data.id
               /\ resp'.data.marca = req.body.marca.s
               /\ resp'.data.modelo = req.body.modelo.s
               /\ resp'.data.ano = AnoOf(req.body.ano)
               /\ resp'.data.preco = PadFraction(req.body.preco.s)
               /\ ("foto" \notin DOMAIN req.body => resp'.data.foto = Null)]_vars

\* C1, amended: the same, with marca and modelo equal to the values supplied
\* with their leading and trailing whitespace removed.
C1_CreateThenRetrieveTrimmed ==
    [][/\ (req'.method = "POST" /\ ValidCreate(req'.body))
            => resp'.status = 201 /\ InsertedOne(resp'.data.id)
       /\ (/\ req.method = "POST" /\ ValidCreate(req.body) /\ resp.status = 201
           /\ req'.method = "GET" /\ req'.id = resp.data.id)
            => /\ resp'.status = 200
               /\ resp'.data.id = resp.data.id
               /\ resp'.data.marca = Strip(req.body.marca.s)
               /\ resp'.data.modelo = Strip(req.body.modelo.s)
               /\ resp'.data.ano = AnoOf(req.body.ano)
               /\ resp'.data.preco = PadFraction(req.body.preco.s)
               /\ ("foto" \notin DOMAIN req.body => resp'.data.foto = Null)]_vars

\* C1's case: a valid create whose marca is padded and whose preco has one
\* fractional digit was answered 201, next to one whose body has no foto.
C1_Witness ==
    /\ req.method = "POST" /\ ValidCreate(req.body) /\ resp.status = 201
    /\ req.body.marca.s # Strip(req.body.marca.s)
    /\ "foto" \notin DOMAIN req.body
    /\ resp.data.id > 1

\* C2: whatever requests came before, GET /carros/ answers 200 and the ids of
\* its results are those of the records created and not deleted since.
C2_ListShowsLiveRecords ==
    req.method = "LIST" =>
        /\ resp.status = 200
        /\ {r.id : r \in resp.data} = created \ deleted

\* C2's case: a list answered after creates and a delete, a record left.
C2_Witness ==
    /\ req.method = "LIST"
    /\ deleted # {}
    /\ created \ deleted # {}
    /\ \E r \in resp.data : r.preco = PadFraction(Preco14999_0)

\* C3, as stated: a PATCH of an existing record whose body supplies only
\* preco answers 200.
C3_PatchPrecoAlwaysAnswers200 ==
    (req.method = "PATCH" /\ req.id \in DOMAIN db /\ DOMAIN req.body = {"preco"})
        => resp.status = 200

\* C3, amended: a PATCH of an existing record whose body supplies only a
\* preco the field accepts (a decimal numeral of at most 8 integer and 2
\* fractional digits) answers 200, stores that preco, leaves the record's
\* marca, modelo, ano, id and criado_em as they were and every other record
\* unchanged.
C3_PatchPrecoFrame ==
    [][(/\ req'.method = "PATCH" /\ req'.id \in DOMAIN db
        /\ DOMAIN req'.body = {"preco"} /\ AcceptablePreco(req'.body.preco))
        => /\ resp'.status = 200
           /\ DOMAIN db' = DOMAIN db
           /\ FormatDecimal(db'[req'.id].preco) = PadFraction(req'.body.preco.s)
           /\ resp'.data.id = req'.id
           /\ \A c \in {"marca", "modelo", "ano", "criado_em"} :
                 db'[req'.id][c] = db[req'.id][c]
           /\ OthersUnchanged(req'.id)]_vars

\* C3's case: a preco-only PATCH changed the preco of a record that has a
\* foto, with another record stored.
C3_Witness ==
    /\ req.method = "PATCH" /\ DOMAIN req.body = {"preco"} /\ resp.status = 200
    /\ req.body.preco = Str(Preco14999_0)
    /\ db[req.id].foto # FotoNone
    /\ Cardinality(DOMAIN db) > 1

\* C4: once a DELETE of a record was answered 204, every GET of that id
\* answers 404 and every list omits the id, whatever requests follow; and the
\* delete leaves the other records unchanged.
C4_DeletedStaysGone ==
    [][/\ (req'.method = "GET" /\ req'.id \in deleted') => resp'.status = 404
       /\ req'.method = "LIST" => \A r \in resp'.data : r.id \notin deleted'
       /\ (req'.method = "DELETE" /\ req'.id \in DOMAIN db)
            => /\ resp'.status = 204
               /\ DOMAIN db' = DOMAIN db \ {req'.id}
               /\ \A i \in DOMAIN db' : db'[i] = db[i]]_vars

\* C4's case: a GET of a deleted id, after a later create.
C4_Witness ==
    /\ req.method = "GET" /\ req.id \in deleted /\ resp.status = 404
    /\ \E i \in DOMAIN db : i > req.id

\* C5: a POST whose body lacks a required field or carries a malformed one
\* answers 400 with a mapping that names each such field, and the table is
\* left as it was.
C5_InvalidCreateRejected ==
    [][(req'.method = "POST" /\ Offending(req'.body) # {})
        => /\ resp'.status = 400
           /\ Offending(req'.body) \subseteq DOMAIN resp'.data
           /\ db' = db
           /\ seq' = seq]_vars

\* C5's case: a POST without ano, rejected with records stored.
C5_Witness ==
    /\ req.method = "POST" /\ "ano" \notin DOMAIN req.body
    /\ resp.status = 400
    /\ DOMAIN db # {}

\* C6, as stated: a create or update whose body carries id or criado_em fails.
C6_ReadOnlyKeysRejected ==
    (req.method \in {"POST", "PUT", "PATCH"} /\ ReadOnlyKeys(req.body) # {})
        => resp.status \notin {200, 201}

\* C6, amended: id and criado_em carried by a create or update body are
\* ignored. They are no reason for an error, and the values they carry are
\* not stored: a created record gets the next id of the sequence, an updated
\* one keeps the id of its URL and its criado_em.
C6_ReadOnlyKeysIgnored ==
    [][(req'.method \in {"POST", "PUT", "PATCH"} /\ ReadOnlyKeys(req'.body) # {})
        => /\ resp'.status = 400 => DOMAIN resp'.data \cap ReadOnlyFields = {}
           /\ (req'.method = "POST" /\ ValidCreate(Without(Without(req'.body, "id"), "criado_em")))
                => /\ resp'.status = 201
                   /\ resp'.data.id = seq + 1
                   /\ InsertedOne(seq + 1)
                   /\ ("criado_em" \in DOMAIN req'.body
                         => db'[seq + 1].criado_em # req'.body.criado_em.n)
           /\ (req'.method \in {"PUT", "PATCH"} /\ req'.id \in DOMAIN db)
                => /\ resp'.status = 200
                   /\ resp'.data.id = req'.id
                   /\ DOMAIN db' = DOMAIN db
                   /\ db'[req'.id].criado_em = db[req'.id].criado_em
                   /\ OthersUnchanged(req'.id)]_vars

\* C6's case: a PATCH whose body carries criado_em was answered 200.
C6_Witness ==
    /\ req.method = "PATCH" /\ "criado_em" \in DOMAIN req.body
    /\ resp.status = 200

\* C7: a new record's id was never handed out before, and no request changes
\* the id or the criado_em of a stored record: a PUT or PATCH, also one whose
\* body names id or criado_em, leaves the record under the id of its URL with
\* the criado_em of its insertion.
C7_IdAndCriadoEmStable ==
    [][/\ \A i \in DOMAIN db \cap DOMAIN db' : db'[i].criado_em = db[i].criado_em
       /\ \A i \in DOMAIN db' \ DOMAIN db : i \notin created \cup deleted
       /\ req'.method \in {"PUT", "PATCH"}
            => /\ DOMAIN db' = DOMAIN db
               /\ resp'.status = 200 => resp'.data.id = req'.id]_vars

\* C7's case: a PUT or PATCH whose body names a read-only key succeeded on a
\* record that is not the newest.
C7_Witness ==
    /\ req.method \in {"PUT", "PATCH"} /\ ReadOnlyKeys(req.body) # {}
    /\ resp.status = 200
    /\ req.id < seq

\* C8: str() of a Carro record is the text "<marca> <modelo>".
C8_StrIsMarcaModelo ==
    req.method = "STR" =>
        resp.data = Str(db[req.id].marca \o <<" ">> \o db[req.id].modelo)

\* C9: GET, PATCH and DELETE of an id that names no stored record answer 404
\* and leave the table as it was.
C9_MissingIdNotFound ==
    [][(req'.method \in {"GET", "PATCH", "DELETE"} /\ req'.id \notin DOMAIN db)
        => resp'.status = 404 /\ db' = db]_vars

\* C9's case: a DELETE of an id that was deleted before, with a record stored.
C9_Witness ==
    /\ req.method = "DELETE" /\ req.id \in deleted /\ resp.status = 404
    /\ DOMAIN db # {}

\* C10: when no update is in flight, every field of every record holds the
\* value of the last request that supplied it (two overlapping PATCHes of
\* disjoint fields both take effect).
C10_FieldwiseLastWriteWins ==
    (\A w \in Workers : inflight[w] = Idle)
        => \A i \in DOMAIN db \cap DOMAIN expect : db[i] = expect[i]

====
